---- MODULE Spec2Model ----
(***************************************************************************)
(* PajaritoSaltadorWeb: the simulation core of src/src/game.js together    *)
(* with the jump latch of src/src/input.js and the canvas sizing of        *)
(* src/src/renderer.js.                                                    *)
(*                                                                         *)
(* Units.  The source computes with floating point seconds and pixels.     *)
(* The model keeps exact integers by scaling:                              *)
(*   time      : milliseconds          (deltaTime 0.1 s   = 100)           *)
(*   length    : 1/1000 pixel          (bird.y 250 px     = 250000)        *)
(*   velocity  : 1/1000 pixel / second (maxVelocity 400   = 400000)        *)
(*   angle     : 1/1000 radian         (PI                = 3142)          *)
(* Accelerations and speeds stay in the source's units (px/s^2, px/s):     *)
(* multiplied by a time in ms they give 1/1000 px/s and 1/1000 px.         *)
(***************************************************************************)
EXTENDS Integers, Sequences, FiniteSets, TLC

VARIABLES
  state,              \* this.state: "start" | "playing" | "gameover"
  score,              \* this.score
  highScore,          \* this.highScore
  bird,               \* this.bird
  pipes,              \* this.pipes
  pipeGap,            \* this.pipeGap      (px)
  pipeSpeed,          \* this.pipeSpeed    (px/s)
  gravity,            \* this.gravity      (px/s^2)
  jumpForce,          \* this.jumpForce    (px/s)
  difficultyLevel,    \* this.difficultyLevel
  lastTime,           \* this.lastTime     (ms, requestAnimationFrame clock)
  pipeSpawnTimer,     \* this.pipeSpawnTimer    (ms)
  pipeSpawnInterval,  \* this.pipeSpawnInterval (ms)
  ability,            \* this.abilities.invulnerability
  input,              \* this.input: [jumpRequested, enabled]
  canvas,             \* this.canvas: [width, height] as set by Renderer.setupCanvas
  screens,            \* style.display of #startScreen and #gameOverScreen
  env,                \* what the environment may still do (bounds of the model)
  last,               \* history: the callback that ran last, the state it ran
                      \* in and what activateInvulnerability returned to it
  sinceActivation,    \* history: deltaTime accumulated by update since the last
                      \* successful activation (-1: none in this round)
  presses,            \* history: jump presses latched since the latch was
                      \* last cleared
  deltaHanded         \* history: the deltaTime the last frame handed to update

vars == <<state, score, highScore, bird, pipes, pipeGap, pipeSpeed, gravity,
          jumpForce, difficultyLevel, lastTime, pipeSpawnTimer,
          pipeSpawnInterval, ability, input, canvas, screens, env, last,
          sinceActivation, presses, deltaHanded>>

(***************************************************************************)
(* Scaling and arithmetic helpers.                                         *)
(***************************************************************************)
Milli == 10 * 100

Px(n) == n * Milli

Min(a, b) == IF a < b THEN a ELSE b

Max(a, b) == IF a > b THEN a ELSE b

Abs(a) == IF a < 0 THEN -a ELSE a

(***************************************************************************)
(* Program constants (game.js constructor, startGame, updateBird).         *)
(***************************************************************************)
birdX == 100
birdStartY == 250
birdWidth == 40
birdHeight == 30
pipeWidth == 60
maxVelocity == 400
baseGravity == 1000
baseJumpForce == 250
basePipeSpeed == 150
basePipeGap == 150
baseSpawnInterval == 1500
levelEvery == 25
speedStep == 30
gapStep == 10
gapFloor == 100
gravityStep == 50
intervalStep == 100
intervalFloor == 800
abilityDuration == 3000
abilityCooldown == 15000
maxDeltaTime == 100
deathVelocity == 200
deathTimeLimit == 2000
pruneMargin == 50
spawnMargin == 100
pairEpsilon == 10
PiMilli == 3142
HalfPiMilli == 1571
TwoPiMilli == 6283
wingSpeedUp == 15
wingSpeedDown == 8
viewportWidth == 400
viewportHeight == 600

(***************************************************************************)
(* The program state as one record, so that the methods of Game compose    *)
(* as the source composes them.  Game is the current state; Install(g)     *)
(* assigns a record back to the variables.                                 *)
(***************************************************************************)
Game ==
  [state |-> state, score |-> score, highScore |-> highScore, bird |-> bird,
   pipes |-> pipes, pipeGap |-> pipeGap, pipeSpeed |-> pipeSpeed,
   gravity |-> gravity, jumpForce |-> jumpForce,
   difficultyLevel |-> difficultyLevel, pipeSpawnTimer |-> pipeSpawnTimer,
   pipeSpawnInterval |-> pipeSpawnInterval, ability |-> ability,
   input |-> input, canvas |-> canvas, screens |-> screens]

Install(g) ==
  \E next \in {g} :
    /\ state' = next.state
    /\ score' = next.score
    /\ highScore' = next.highScore
    /\ bird' = next.bird
    /\ pipes' = next.pipes
    /\ pipeGap' = next.pipeGap
    /\ pipeSpeed' = next.pipeSpeed
    /\ gravity' = next.gravity
    /\ jumpForce' = next.jumpForce
    /\ difficultyLevel' = next.difficultyLevel
    /\ pipeSpawnTimer' = next.pipeSpawnTimer
    /\ pipeSpawnInterval' = next.pipeSpawnInterval
    /\ ability' = next.ability
    /\ input' = next.input
    /\ canvas' = next.canvas
    /\ screens' = next.screens

(***************************************************************************)
(* physics.js and utils.js (imported by game.js).                          *)
(***************************************************************************)
applyGravity(b, gravityAccel, dt) ==
  [b EXCEPT !.velocity = @ + gravityAccel * dt]

applyJump(b, force) ==
  [b EXCEPT !.velocity = -Px(force)]

clampVelocity(b, maxV) ==
  [b EXCEPT !.velocity = Min(@, maxV)]

checkCollision(A, B) ==
  /\ A.x < B.x + B.width
  /\ A.x + A.width > B.x
  /\ A.y < B.y + B.height
  /\ A.y + A.height > B.y

(***************************************************************************)
(* input.js                                                                *)
(***************************************************************************)
setEnabled(g, enabled) ==
  [g EXCEPT !.input = [enabled |-> enabled,
                       jumpRequested |-> IF enabled THEN @.jumpRequested ELSE FALSE]]

\* Mutant: the latch is read but not cleared.
consumeJump_sticky(g) ==
  [ret |-> g.input.jumpRequested, g |-> g]

\* consumeJump returns the latch and clears it.
consumeJump(g) ==
  [ret |-> g.input.jumpRequested,
   g |-> [g EXCEPT !.input.jumpRequested = FALSE]]

inputReset(g) ==
  [g EXCEPT !.input.jumpRequested = FALSE]

\* keydown Space / mousedown on the canvas: latch a jump while enabled.
\* Mutant: a press is latched whether or not the input is enabled.
requestJump_always(g) ==
  [g EXCEPT !.input.jumpRequested = TRUE]

requestJump(g) ==
  IF g.input.enabled THEN [g EXCEPT !.input.jumpRequested = TRUE] ELSE g

(***************************************************************************)
(* game.js: game over, death animation, abilities.                         *)
(***************************************************************************)
\* Mutant: no early return, and the input gate flipped instead of closed.
gameOver_reentrant(g) ==
  LET g1 == setEnabled([g EXCEPT !.state = "gameover"], ~g.input.enabled)
      g2 == IF g1.score > g1.highScore
            THEN [g1 EXCEPT !.highScore = g1.score] ELSE g1
  IN [g2 EXCEPT !.screens.gameOverScreen = TRUE]

gameOver(g) ==
  IF g.state = "gameover" THEN g
  ELSE LET g1 == setEnabled([g EXCEPT !.state = "gameover"], FALSE)
           g2 == IF g1.score > g1.highScore
                 THEN [g1 EXCEPT !.highScore = g1.score] ELSE g1
       IN [g2 EXCEPT !.screens.gameOverScreen = TRUE]

\* startDeathAnimation without its guard: a second call restarts the
\* animation.
startDeathAnimation_restart(g) ==
  [g EXCEPT !.bird.isDying = TRUE,
            !.bird.deathAnimationTime = 0,
            !.bird.velocity = Max(@, Px(deathVelocity))]

startDeathAnimation(g) ==
  IF g.bird.isDying THEN g
  ELSE [g EXCEPT !.bird.isDying = TRUE,
                 !.bird.deathAnimationTime = 0,
                 !.bird.velocity = Max(@, Px(deathVelocity))]

\* Mutant: the cooldown starts counting only when the active window is over.
updateAbilities_sequential(g, dt) ==
  LET a == g.ability
      cd == IF a.cooldownTimer > 0 /\ ~a.active
            THEN (IF a.cooldownTimer - dt < 0 THEN 0 ELSE a.cooldownTimer - dt)
            ELSE a.cooldownTimer
      a1 == [a EXCEPT !.cooldownTimer = cd]
      a2 == IF a1.active
            THEN (IF a1.activeTimer - dt <= 0
                  THEN [a1 EXCEPT !.active = FALSE, !.activeTimer = 0]
                  ELSE [a1 EXCEPT !.activeTimer = @ - dt])
            ELSE a1
  IN [g EXCEPT !.ability = a2]

\* Mutant: when the active window runs out the timer is zeroed but the
\* flag is left set.
updateAbilities_staysActive(g, dt) ==
  LET a == g.ability
      cd == IF a.cooldownTimer > 0
            THEN (IF a.cooldownTimer - dt < 0 THEN 0 ELSE a.cooldownTimer - dt)
            ELSE a.cooldownTimer
      a1 == [a EXCEPT !.cooldownTimer = cd]
      a2 == IF a1.active
            THEN (IF a1.activeTimer - dt <= 0
                  THEN [a1 EXCEPT !.activeTimer = 0]
                  ELSE [a1 EXCEPT !.activeTimer = @ - dt])
            ELSE a1
  IN [g EXCEPT !.ability = a2]

updateAbilities(g, dt) ==
  LET a == g.ability
      cd == IF a.cooldownTimer > 0
            THEN (IF a.cooldownTimer - dt < 0 THEN 0 ELSE a.cooldownTimer - dt)
            ELSE a.cooldownTimer
      a1 == [a EXCEPT !.cooldownTimer = cd]
      a2 == IF a1.active
            THEN (IF a1.activeTimer - dt <= 0
                  THEN [a1 EXCEPT !.active = FALSE, !.activeTimer = 0]
                  ELSE [a1 EXCEPT !.activeTimer = @ - dt])
            ELSE a1
  IN [g EXCEPT !.ability = a2]

\* Mutant: no guard, every call activates.
activateInvulnerability_noGuard(g) ==
  [ret |-> TRUE,
   g |-> [g EXCEPT !.ability = [active |-> TRUE,
                                activeTimer |-> abilityDuration,
                                cooldownTimer |-> abilityCooldown]]]

\* Mutant: the guard tests the active flag instead of the cooldown.
activateInvulnerability_activeGuard(g) ==
  IF g.ability.active
  THEN [ret |-> FALSE, g |-> g]
  ELSE [ret |-> TRUE,
        g |-> [g EXCEPT !.ability = [active |-> TRUE,
                                     activeTimer |-> abilityDuration,
                                     cooldownTimer |-> abilityCooldown]]]

\* Mutant: the cooldown is set to the duration.
activateInvulnerability_shortCooldown(g) ==
  IF g.ability.cooldownTimer > 0
  THEN [ret |-> FALSE, g |-> g]
  ELSE [ret |-> TRUE,
        g |-> [g EXCEPT !.ability = [active |-> TRUE,
                                     activeTimer |-> abilityDuration,
                                     cooldownTimer |-> abilityDuration]]]

\* activateInvulnerability returns false while the cooldown runs.
activateInvulnerability(g) ==
  IF g.ability.cooldownTimer > 0
  THEN [ret |-> FALSE, g |-> g]
  ELSE [ret |-> TRUE,
        g |-> [g EXCEPT !.ability = [active |-> TRUE,
                                     activeTimer |-> abilityDuration,
                                     cooldownTimer |-> abilityCooldown]]]

(***************************************************************************)
(* game.js: the bird.                                                      *)
(***************************************************************************)
\* Mutant: the live branch does not clamp the velocity after the gravity.
updateBird_noClamp(g, dt, shouldJump) ==
  IF g.bird.isDying
  THEN LET b1 == [g.bird EXCEPT !.deathAnimationTime = @ + dt]
           b2 == clampVelocity(applyGravity(b1, (g.gravity * 3) \div 2, dt),
                               (Px(maxVelocity) * 3) \div 2)
           b3 == [b2 EXCEPT !.rotation = @ + ((PiMilli - @) * 15) \div 100,
                            !.wingPhase = 0]
       IN IF b3.y + b3.height >= g.canvas.height
             \/ b3.deathAnimationTime > deathTimeLimit * Milli
          THEN [g EXCEPT !.bird = [b3 EXCEPT !.y = Min(@, g.canvas.height - b3.height)]]
          ELSE [g EXCEPT !.bird = b3]
  ELSE LET b1 == IF shouldJump
                 THEN [applyJump(g.bird, g.jumpForce) EXCEPT !.wingPhase = 0]
                 ELSE g.bird
           b2 == applyGravity(b1, g.gravity, dt)
           targetRotation == Min(b2.velocity \div 500, HalfPiMilli)
           b3 == [b2 EXCEPT !.rotation = @ + (targetRotation - @) \div 10]
           wingSpeed == IF b3.velocity < 0 THEN wingSpeedUp ELSE wingSpeedDown
           phase == b3.wingPhase + dt * wingSpeed
           b4 == [b3 EXCEPT !.wingPhase = IF phase > TwoPiMilli
                                          THEN phase - TwoPiMilli ELSE phase]
           b5 == IF b4.y < 0 THEN [b4 EXCEPT !.y = 0, !.velocity = 0] ELSE b4
       IN IF b5.y + b5.height > g.canvas.height
          THEN gameOver(startDeathAnimation(
                 [g EXCEPT !.bird = [b5 EXCEPT !.y = g.canvas.height - b5.height]]))
          ELSE [g EXCEPT !.bird = b5]

\* Mutant: the live branch does not clamp the bird at the top edge.
updateBird_noTopClamp(g, dt, shouldJump) ==
  IF g.bird.isDying
  THEN LET b1 == [g.bird EXCEPT !.deathAnimationTime = @ + dt]
           b2 == clampVelocity(applyGravity(b1, (g.gravity * 3) \div 2, dt),
                               (Px(maxVelocity) * 3) \div 2)
           b3 == [b2 EXCEPT !.rotation = @ + ((PiMilli - @) * 15) \div 100,
                            !.wingPhase = 0]
       IN IF b3.y + b3.height >= g.canvas.height
             \/ b3.deathAnimationTime > deathTimeLimit * Milli
          THEN [g EXCEPT !.bird = [b3 EXCEPT !.y = Min(@, g.canvas.height - b3.height)]]
          ELSE [g EXCEPT !.bird = b3]
  ELSE LET b1 == IF shouldJump
                 THEN [applyJump(g.bird, g.jumpForce) EXCEPT !.wingPhase = 0]
                 ELSE g.bird
           b2 == clampVelocity(applyGravity(b1, g.gravity, dt), Px(maxVelocity))
           targetRotation == Min(b2.velocity \div 500, HalfPiMilli)
           b3 == [b2 EXCEPT !.rotation = @ + (targetRotation - @) \div 10]
           wingSpeed == IF b3.velocity < 0 THEN wingSpeedUp ELSE wingSpeedDown
           phase == b3.wingPhase + dt * wingSpeed
           b4 == [b3 EXCEPT !.wingPhase = IF phase > TwoPiMilli
                                          THEN phase - TwoPiMilli ELSE phase]
           b5 == b4
       IN IF b5.y + b5.height > g.canvas.height
          THEN gameOver(startDeathAnimation(
                 [g EXCEPT !.bird = [b5 EXCEPT !.y = g.canvas.height - b5.height]]))
          ELSE [g EXCEPT !.bird = b5]

updateBird(g, dt, shouldJump) ==
  IF g.bird.isDying
  THEN LET b1 == [g.bird EXCEPT !.deathAnimationTime = @ + dt]
           b2 == clampVelocity(applyGravity(b1, (g.gravity * 3) \div 2, dt),
                               (Px(maxVelocity) * 3) \div 2)
           b3 == [b2 EXCEPT !.rotation = @ + ((PiMilli - @) * 15) \div 100,
                            !.wingPhase = 0]
       IN IF b3.y + b3.height >= g.canvas.height
             \/ b3.deathAnimationTime > deathTimeLimit * Milli
          THEN [g EXCEPT !.bird = [b3 EXCEPT !.y = Min(@, g.canvas.height - b3.height)]]
          ELSE [g EXCEPT !.bird = b3]
  ELSE LET b1 == IF shouldJump
                 THEN [applyJump(g.bird, g.jumpForce) EXCEPT !.wingPhase = 0]
                 ELSE g.bird
           b2 == clampVelocity(applyGravity(b1, g.gravity, dt), Px(maxVelocity))
           targetRotation == Min(b2.velocity \div 500, HalfPiMilli)
           b3 == [b2 EXCEPT !.rotation = @ + (targetRotation - @) \div 10]
           wingSpeed == IF b3.velocity < 0 THEN wingSpeedUp ELSE wingSpeedDown
           phase == b3.wingPhase + dt * wingSpeed
           b4 == [b3 EXCEPT !.wingPhase = IF phase > TwoPiMilli
                                          THEN phase - TwoPiMilli ELSE phase]
           b5 == IF b4.y < 0 THEN [b4 EXCEPT !.y = 0, !.velocity = 0] ELSE b4
       IN IF b5.y + b5.height > g.canvas.height
          THEN gameOver(startDeathAnimation(
                 [g EXCEPT !.bird = [b5 EXCEPT !.y = g.canvas.height - b5.height]]))
          ELSE [g EXCEPT !.bird = b5]

(***************************************************************************)
(* game.js: the pipes.  rnd is the numerator of Math.random() over         *)
(* RandDen, so 0 <= rnd / RandDen < 1.                                     *)
(***************************************************************************)
RandDen == 4

spawnPipe(g, rnd) ==
  LET gapY == (rnd * (g.canvas.height - Px(g.pipeGap) - 2 * Px(spawnMargin))) \div RandDen
              + Px(spawnMargin)
      top == [x |-> g.canvas.width, y |-> 0, width |-> Px(pipeWidth),
              height |-> gapY, passed |-> FALSE]
      bottom == [x |-> g.canvas.width, y |-> gapY + Px(g.pipeGap),
                 width |-> Px(pipeWidth),
                 height |-> g.canvas.height - (gapY + Px(g.pipeGap)),
                 passed |-> FALSE]
  IN [g EXCEPT !.pipes = Append(Append(@, top), bottom)]

updatePipes(g, dt, rnd) ==
  LET moved == [i \in 1..Len(g.pipes) |->
                  [g.pipes[i] EXCEPT !.x = @ - g.pipeSpeed * dt]]
      OnScreen(pipe) == /\ pipe.x + pipe.width > -Px(pruneMargin)
                        /\ pipe.x < g.canvas.width + Px(pruneMargin)
      g1 == [g EXCEPT !.pipes = SelectSeq(moved, OnScreen),
                      !.pipeSpawnTimer = @ + dt]
  IN IF g1.pipeSpawnTimer >= g1.pipeSpawnInterval
     THEN [spawnPipe(g1, rnd) EXCEPT !.pipeSpawnTimer = 0]
     ELSE g1

\* Mutant: the collision check ignores the invulnerability.
checkCollisions_noShield(g) ==
  IF g.bird.isDying THEN g
  ELSE LET birdRect == [x |-> g.bird.x, y |-> g.bird.y,
                        width |-> g.bird.width, height |-> g.bird.height]
       IN IF \E i \in 1..Len(g.pipes) : checkCollision(birdRect, g.pipes[i])
          THEN gameOver(startDeathAnimation(g))
          ELSE g

checkCollisions(g) ==
  IF g.ability.active THEN g
  ELSE IF g.bird.isDying THEN g
  ELSE LET birdRect == [x |-> g.bird.x, y |-> g.bird.y,
                        width |-> g.bird.width, height |-> g.bird.height]
       IN IF \E i \in 1..Len(g.pipes) : checkCollision(birdRect, g.pipes[i])
          THEN gameOver(startDeathAnimation(g))
          ELSE g

(***************************************************************************)
(* game.js: score and difficulty.                                          *)
(***************************************************************************)
\* Mutant: the gravity is left as it was.
increaseDifficulty_noGravity(g) ==
  [g EXCEPT !.pipeSpeed = basePipeSpeed + g.difficultyLevel * speedStep,
            !.pipeGap = Max(gapFloor, basePipeGap - g.difficultyLevel * gapStep),
            !.pipeSpawnInterval =
                Max(intervalFloor, baseSpawnInterval - g.difficultyLevel * intervalStep)]

increaseDifficulty(g) ==
  [g EXCEPT !.pipeSpeed = basePipeSpeed + g.difficultyLevel * speedStep,
            !.pipeGap = Max(gapFloor, basePipeGap - g.difficultyLevel * gapStep),
            !.gravity = baseGravity + g.difficultyLevel * gravityStep,
            !.pipeSpawnInterval =
                Max(intervalFloor, baseSpawnInterval - g.difficultyLevel * intervalStep)]

\* Mutant: the level is rounded up instead of down.
scorePoint_ceil(g) ==
  LET g1 == [g EXCEPT !.score = @ + 1]
      newLevel == (g1.score + levelEvery - 1) \div levelEvery
  IN IF newLevel > g1.difficultyLevel
     THEN increaseDifficulty([g1 EXCEPT !.difficultyLevel = newLevel])
     ELSE g1

\* The score event of one pipe that has just been marked passed.
scorePoint(g) ==
  LET g1 == [g EXCEPT !.score = @ + 1]
      newLevel == g1.score \div levelEvery
  IN IF newLevel > g1.difficultyLevel
     THEN increaseDifficulty([g1 EXCEPT !.difficultyLevel = newLevel])
     ELSE g1

\* One iteration of the forEach of updateScore, on pipe i.
scorePipe(g, i) ==
  LET pipe == g.pipes[i]
  IN IF ~pipe.passed /\ pipe.x + pipe.width < g.bird.x
     THEN LET g1 == [g EXCEPT !.pipes[i].passed = TRUE]
              near == {j \in 1..Len(g1.pipes) :
                         /\ g1.pipes[j].passed
                         /\ Abs(g1.pipes[j].x - pipe.x) < Px(pairEpsilon)}
          IN IF Cardinality(near) = 2 THEN scorePoint(g1) ELSE g1
     ELSE g

RECURSIVE scoreFrom(_, _)
scoreFrom(g, i) ==
  IF i > Len(g.pipes) THEN g ELSE scoreFrom(scorePipe(g, i), i + 1)

updateScore(g) == scoreFrom(g, 1)

(***************************************************************************)
(* game.js: start of a round and the per-frame update.                     *)
(***************************************************************************)
\* Mutant: the ability timers are not reset.
startGame_keepsAbility(g) ==
  LET g1 == [g EXCEPT
               !.state = "playing",
               !.score = 0,
               !.pipes = <<>>,
               !.pipeSpawnTimer = 0,
               !.difficultyLevel = 0,
               !.gravity = baseGravity,
               !.jumpForce = baseJumpForce,
               !.pipeSpeed = basePipeSpeed,
               !.pipeGap = basePipeGap,
               !.pipeSpawnInterval = baseSpawnInterval,
               !.bird = [@ EXCEPT !.x = Px(birdX), !.y = Px(birdStartY),
                                  !.velocity = 0, !.rotation = 0, !.wingPhase = 0,
                                  !.isDying = FALSE, !.deathAnimationTime = 0],
               !.screens = [startScreen |-> FALSE, gameOverScreen |-> FALSE]]
  IN setEnabled(inputReset(g1), TRUE)

startGame_keepsDying(g) ==
  LET g1 == [g EXCEPT
               !.state = "playing",
               !.score = 0,
               !.pipes = <<>>,
               !.pipeSpawnTimer = 0,
               !.difficultyLevel = 0,
               !.gravity = baseGravity,
               !.jumpForce = baseJumpForce,
               !.pipeSpeed = basePipeSpeed,
               !.pipeGap = basePipeGap,
               !.pipeSpawnInterval = baseSpawnInterval,
               !.ability = [active |-> FALSE, activeTimer |-> 0, cooldownTimer |-> 0],
               !.bird = [@ EXCEPT !.x = Px(birdX), !.y = Px(birdStartY),
                                  !.velocity = 0, !.rotation = 0, !.wingPhase = 0,
                                  !.deathAnimationTime = 0],
               !.screens = [startScreen |-> FALSE, gameOverScreen |-> FALSE]]
  IN setEnabled(inputReset(g1), TRUE)

startGame(g) ==
  LET g1 == [g EXCEPT
               !.state = "playing",
               !.score = 0,
               !.pipes = <<>>,
               !.pipeSpawnTimer = 0,
               !.difficultyLevel = 0,
               !.gravity = baseGravity,
               !.jumpForce = baseJumpForce,
               !.pipeSpeed = basePipeSpeed,
               !.pipeGap = basePipeGap,
               !.pipeSpawnInterval = baseSpawnInterval,
               !.ability = [active |-> FALSE, activeTimer |-> 0, cooldownTimer |-> 0],
               !.bird = [@ EXCEPT !.x = Px(birdX), !.y = Px(birdStartY),
                                  !.velocity = 0, !.rotation = 0, !.wingPhase = 0,
                                  !.isDying = FALSE, !.deathAnimationTime = 0],
               !.screens = [startScreen |-> FALSE, gameOverScreen |-> FALSE]]
  IN setEnabled(inputReset(g1), TRUE)

\* The steps of update up to and including updateBird.
afterBird(g, deltaTime) ==
  LET jump == consumeJump(g)
  IN updateBird(updateAbilities(jump.g, deltaTime), deltaTime, jump.ret)

\* The steps of update up to and including updatePipes.
beforeCollisions(g, deltaTime, rnd) ==
  updatePipes(afterBird(g, deltaTime), deltaTime, rnd)

\* The steps of update up to and including checkCollisions.
updateSteps(g, deltaTime, rnd) ==
  checkCollisions(beforeCollisions(g, deltaTime, rnd))

\* Mutant: update runs whenever a round has been started.
update_notStart(g, deltaTime, rnd) ==
  IF g.state # "start"
  THEN updateScore(updateSteps(g, deltaTime, rnd))
  ELSE g

\* Mutant: update runs in every state.
update_always(g, deltaTime, rnd) ==
  updateScore(updateSteps(g, deltaTime, rnd))

\* Mutant: the ability is ticked after the collision check.
update_tickLast(g, deltaTime, rnd) ==
  IF g.state = "playing"
  THEN LET jump == consumeJump(g)
           g1 == updateBird(jump.g, deltaTime, jump.ret)
           g2 == checkCollisions(updatePipes(g1, deltaTime, rnd))
       IN updateScore(updateAbilities(g2, deltaTime))
  ELSE g

update(g, deltaTime, rnd) ==
  IF g.state = "playing"
  THEN updateScore(updateSteps(g, deltaTime, rnd))
  ELSE g

\* keydown Space: InputManager's listener, then the listener of setupUI.
keyDownSpace(g) ==
  LET g1 == requestJump(g)
  IN IF g1.state = "start" THEN startGame(g1) ELSE g1

\* Mutant: the handlers call activateInvulnerability in every state.
abilityTrigger_anyState(g) ==
  LET r == activateInvulnerability(g)
  IN [ret |-> IF r.ret THEN "ok" ELSE "fail", g |-> r.g]

\* The guarded call of activateInvulnerability in both ability handlers.
abilityTrigger(g) ==
  IF g.state = "playing"
  THEN LET r == activateInvulnerability(g)
       IN [ret |-> IF r.ret THEN "ok" ELSE "fail", g |-> r.g]
  ELSE [ret |-> "none", g |-> g]

(***************************************************************************)
(* The environment: the browser's frame clock, Math.random, the window     *)
(* size, the stored high score and the player.  The nominal run is a       *)
(* frame every maxDeltaTime ms while playing, with the gap drawn in the    *)
(* middle of its range; every other choice of the environment (another     *)
(* frame delta, a frame outside a round, another random draw, a key, a     *)
(* click, a resize) is an event.  env counts the frames and events left    *)
(* and the time up to which events may happen.                             *)
(*                                                                         *)
(* Spec explores short runs with events anywhere, SpecWide longer ones     *)
(* (two pairs of pipes pass the bird), SpecLong long nominal runs after    *)
(* events in the first LongWindow ms (the score reaches two levels),       *)
(* SpecClock short runs under a frame clock that may step back.            *)
(***************************************************************************)
MaxFrames == 26
MaxEvents == 3
WideFrames == 40
WideEvents == 3
LongFrames == 760
LongEvents == 3
LongWindow == 400
ClockFrames == 5
ClockEvents == 3

FrameDeltas == {0, 50, maxDeltaTime, 5000}

\* A timestamp earlier than the previous one; only a clock that is not
\* monotonic (env.backward) produces it.
BackwardDeltas == {-50}

MidRand == RandDen \div 2

Rands == 0..(RandDen - 1)

CanvasSizes ==
  { [width |-> Px(400), height |-> Px(600)],
    [width |-> Px(175), height |-> Px(600)],
    [width |-> Px(400), height |-> Px(270)],
    [width |-> Px(400), height |-> Px(280)] }

StoredHighScores == {0, 1}

EventAllowed == env.events > 0 /\ lastTime <= env.window

SpendEvent == env' = [env EXCEPT !.events = @ - 1]

(***************************************************************************)
(* Initial state: the Game and InputManager constructors, and the canvas   *)
(* as Renderer.setupCanvas sized it.                                       *)
(***************************************************************************)
InitGame ==
  /\ state = "start"
  /\ score = 0
  /\ highScore \in StoredHighScores
  /\ bird = [x |-> Px(birdX), y |-> Px(birdStartY), width |-> Px(birdWidth),
             height |-> Px(birdHeight), velocity |-> 0, rotation |-> 0,
             wingPhase |-> 0, isDying |-> FALSE, deathAnimationTime |-> 0]
  /\ pipes = <<>>
  /\ pipeGap = basePipeGap
  /\ pipeSpeed = basePipeSpeed
  /\ gravity = baseGravity
  /\ jumpForce = baseJumpForce
  /\ difficultyLevel = 0
  /\ lastTime = 0
  /\ pipeSpawnTimer = 0
  /\ pipeSpawnInterval = baseSpawnInterval
  /\ ability = [active |-> FALSE, activeTimer |-> 0, cooldownTimer |-> 0]
  /\ input = [jumpRequested |-> FALSE, enabled |-> FALSE]
  /\ canvas = [width |-> Px(400), height |-> Px(600)]
  /\ screens = [startScreen |-> TRUE, gameOverScreen |-> FALSE]
  /\ last = [op |-> "load", from |-> "start", ret |-> "none"]
  /\ sinceActivation = -1
  /\ presses = 0
  /\ deltaHanded = 0

\* A high score already in storage is an event of the environment too.
Init ==
  /\ InitGame
  /\ env = [frames |-> MaxFrames,
            events |-> IF highScore = 0 THEN MaxEvents ELSE MaxEvents - 1,
            window |-> MaxFrames * 5000, backward |-> FALSE]

InitLong ==
  /\ InitGame
  /\ highScore = 0
  /\ env = [frames |-> LongFrames, events |-> LongEvents, window |-> LongWindow,
            backward |-> FALSE]

InitWide ==
  /\ InitGame
  /\ env = [frames |-> WideFrames,
            events |-> IF highScore = 0 THEN WideEvents ELSE WideEvents - 1,
            window |-> WideFrames * 5000, backward |-> FALSE]

\* The frame clock may step back.
InitClock ==
  /\ InitGame
  /\ highScore = 0
  /\ env = [frames |-> ClockFrames, events |-> ClockEvents,
            window |-> ClockFrames * 5000, backward |-> TRUE]

(***************************************************************************)
(* Actions: one per callback.  Ran records the history variable last.      *)
(***************************************************************************)
Ran(op, ret) == last' = [op |-> op, from |-> state, ret |-> ret]

\* requestAnimationFrame callback of startGameLoop; d = currentTime - lastTime.
GameLoop(d, rnd) ==
  LET deltaTime == Min(d, maxDeltaTime)
      spawns == state = "playing" /\ pipeSpawnTimer + deltaTime >= pipeSpawnInterval
      nominal == d = maxDeltaTime /\ state = "playing" /\ rnd = MidRand
      cleared == IF state # "playing" THEN "none"
                 ELSE IF presses = 0 THEN "none"
                 ELSE IF presses = 1 THEN "one" ELSE "many"
  IN /\ env.frames > 0
     /\ d >= 0 \/ env.backward
     /\ lastTime + d >= 0
     /\ spawns \/ rnd = MidRand
     /\ nominal \/ EventAllowed
     /\ lastTime' = lastTime + d
     /\ Install(update(Game, deltaTime, rnd))
     /\ env' = [env EXCEPT !.frames = @ - 1,
                           !.events = IF nominal THEN @ ELSE @ - 1]
     /\ Ran("GameLoop", cleared)
     /\ presses' = IF state = "playing" THEN 0 ELSE presses
     /\ deltaHanded' = deltaTime
     /\ sinceActivation' = IF state = "playing" /\ sinceActivation >= 0
                           THEN Min(abilityCooldown, sinceActivation + deltaTime)
                           ELSE sinceActivation

KeyDownSpace ==
  /\ EventAllowed
  /\ Install(keyDownSpace(Game))
  /\ SpendEvent
  /\ Ran("KeyDownSpace", "none")
  /\ sinceActivation' = IF state = "start" THEN -1 ELSE sinceActivation
  /\ presses' = IF state = "start" THEN 0
                ELSE IF input.enabled THEN presses + 1 ELSE presses
  /\ UNCHANGED <<lastTime, deltaHanded>>

\* mousedown outside buttons and screens.
MouseDown ==
  /\ EventAllowed
  /\ ~screens.startScreen /\ ~screens.gameOverScreen
  /\ Install(requestJump(Game))
  /\ SpendEvent
  /\ Ran("MouseDown", "none")
  /\ presses' = IF input.enabled THEN presses + 1 ELSE presses
  /\ UNCHANGED <<lastTime, sinceActivation, deltaHanded>>

\* click on #startButton (or inside #startScreen), shown until the first start.
ClickStart ==
  /\ EventAllowed
  /\ screens.startScreen
  /\ Install(startGame(Game))
  /\ SpendEvent
  /\ Ran("ClickStart", "none")
  /\ sinceActivation' = -1
  /\ presses' = 0
  /\ UNCHANGED <<lastTime, deltaHanded>>

\* click on #restartButton, shown on the game-over screen.
ClickRestart ==
  /\ EventAllowed
  /\ screens.gameOverScreen
  /\ Install(startGame(Game))
  /\ SpendEvent
  /\ Ran("ClickRestart", "none")
  /\ sinceActivation' = -1
  /\ presses' = 0
  /\ UNCHANGED <<lastTime, deltaHanded>>

\* keydown of the configured ability key.
KeyDownAbility ==
  /\ EventAllowed
  /\ LET r == abilityTrigger(Game)
     IN /\ Install(r.g)
        /\ Ran("KeyDownAbility", r.ret)
        /\ sinceActivation' = IF r.ret = "ok" THEN 0 ELSE sinceActivation
  /\ SpendEvent
  /\ UNCHANGED <<lastTime, presses, deltaHanded>>

\* click on #abilityButton.
ClickAbility ==
  /\ EventAllowed
  /\ LET r == abilityTrigger(Game)
     IN /\ Install(r.g)
        /\ Ran("ClickAbility", r.ret)
        /\ sinceActivation' = IF r.ret = "ok" THEN 0 ELSE sinceActivation
  /\ SpendEvent
  /\ UNCHANGED <<lastTime, presses, deltaHanded>>

\* The debounced resize callback: Renderer.setupCanvas resizes the canvas.
Resize(size) ==
  /\ EventAllowed
  /\ size # canvas
  /\ canvas' = size
  /\ SpendEvent
  /\ Ran("Resize", "none")
  /\ UNCHANGED <<state, score, highScore, bird, pipes, pipeGap, pipeSpeed,
                 gravity, jumpForce, difficultyLevel, lastTime, pipeSpawnTimer,
                 pipeSpawnInterval, ability, input, screens, sinceActivation,
                 presses, deltaHanded>>

Next ==
  \/ \E d \in FrameDeltas \cup BackwardDeltas, rnd \in Rands : GameLoop(d, rnd)
  \/ KeyDownSpace
  \/ MouseDown
  \/ ClickStart
  \/ ClickRestart
  \/ KeyDownAbility
  \/ ClickAbility
  \/ \E size \in CanvasSizes : Resize(size)

Spec == Init /\ [][Next]_vars

SpecLong == InitLong /\ [][Next]_vars

SpecWide == InitWide /\ [][Next]_vars

SpecClock == InitClock /\ [][Next]_vars

(***************************************************************************)
(* Properties.                                                             *)
(***************************************************************************)
StartOps == {"ClickStart", "ClickRestart", "KeyDownSpace"}

AbilityOps == {"KeyDownAbility", "ClickAbility"}

\* The last callback was a start trigger that called startGame.
Started ==
  \/ last.op \in {"ClickStart", "ClickRestart"}
  \/ last.op = "KeyDownSpace" /\ last.from = "start"

BirdRect == [x |-> bird.x, y |-> bird.y, width |-> bird.width, height |-> bird.height]

PassedCount(g) == Cardinality({i \in 1..Len(g.pipes) : g.pipes[i].passed})

C2_StateTransitions ==
  [][state' # state =>
       \/ /\ state = "start" /\ state' = "playing"
          /\ last'.op \in StartOps
       \/ /\ state = "playing" /\ state' = "gameover"
          /\ last'.op = "GameLoop"
          /\ bird'.isDying
          /\ \/ bird'.y + bird'.height = canvas'.height
             \/ \E i \in 1..Len(pipes') : checkCollision(BirdRect', pipes'[i])
       \/ /\ state = "gameover" /\ state' = "playing"
          /\ last'.op \in StartOps]_vars

C2_Witness ==
  /\ state = "gameover" /\ last.from = "playing"
  /\ bird.y + bird.height < canvas.height

\* C3: in state "gameover" a further call of gameOver changes nothing, and
\* no step that stays in "gameover" writes the high score or the input gate.
C3_GameOverIdempotent ==
  /\ [](state = "gameover" => gameOver(Game) = Game)
  /\ [][(state = "gameover" /\ state' = "gameover") =>
          (highScore' = highScore /\ input' = input)]_vars

C3_Witness == state = "gameover" /\ last.from = "gameover" /\ last.op = "GameLoop"

IsFresh(g) ==
  /\ g.state = "playing"
  /\ g.score = 0
  /\ g.pipes = <<>>
  /\ g.pipeSpawnTimer = 0
  /\ g.difficultyLevel = 0
  /\ g.pipeSpeed = basePipeSpeed
  /\ g.pipeGap = basePipeGap
  /\ g.gravity = baseGravity
  /\ g.pipeSpawnInterval = baseSpawnInterval
  /\ g.ability = [active |-> FALSE, activeTimer |-> 0, cooldownTimer |-> 0]
  /\ g.bird.y = Px(birdStartY)
  /\ g.bird.velocity = 0
  /\ g.bird.rotation = 0
  /\ g.bird.wingPhase = 0
  /\ ~g.bird.isDying
  /\ g.bird.deathAnimationTime = 0
  /\ g.input = [jumpRequested |-> FALSE, enabled |-> TRUE]

\* C4: startGame, called in any reachable state, yields the fresh round
\* (playing, score 0, no pipes, timers 0, level 0 and base tunables, ability
\* idle, bird at its initial pose, latch clear, input enabled); and so is
\* the state right after every start trigger.
C4_StartGameResets ==
  /\ IsFresh(startGame(Game))
  /\ Started => IsFresh(Game)

C4_Witness == Started /\ last.from = "gameover"

\* C5: in every playing frame the score grows by the number of pairs
\* marked passed in that frame, a pair being two segments: twice the score
\* increment equals the number of segments newly marked passed.
C5_ScorePerPair ==
  \A d \in FrameDeltas, rnd \in Rands :
    state = "playing" =>
      LET a == updateSteps(Game, Min(d, maxDeltaTime), rnd)
          b == updateScore(a)
      IN 2 * (b.score - a.score) = PassedCount(b) - PassedCount(a)

\* Two pairs (four segments) have passed and the score is 1.
C5_Witness ==
  /\ score = 1
  /\ Cardinality({i \in 1..Len(pipes) : pipes[i].passed}) = 4

\* The step is a start trigger that called startGame.
StartsRound ==
  \/ last'.op \in {"ClickStart", "ClickRestart"}
  \/ last'.op = "KeyDownSpace" /\ state = "start"

\* C6: in every reachable state the level is floor(score / 25), and within
\* a round (any step that is not a start of a round) it never decreases.
C6_LevelFollowsScore ==
  /\ [](difficultyLevel = score \div levelEvery)
  /\ [][~StartsRound => difficultyLevel' >= difficultyLevel]_vars

C6_Witness == difficultyLevel = 2 /\ score > 2 * levelEvery

\* C7: in every reachable state the tunables are the stated function of
\* the level: speed 150 + 30 L, gap max(100, 150 - 10 L), gravity
\* 1000 + 50 L, spawn interval max(0.8 s, 1.5 s - 0.1 s L); so the gap is at
\* least 100 and the interval at least 0.8 s, and at score 25 they are 180,
\* 140, 1050 and 1.4 s.
C7_TunablesFollowLevel ==
  /\ pipeSpeed = basePipeSpeed + speedStep * difficultyLevel
  /\ pipeGap = Max(gapFloor, basePipeGap - gapStep * difficultyLevel)
  /\ gravity = baseGravity + gravityStep * difficultyLevel
  /\ pipeSpawnInterval = Max(intervalFloor, baseSpawnInterval - intervalStep * difficultyLevel)
  /\ pipeGap >= 100
  /\ pipeSpawnInterval >= 800
  /\ score = 25 => /\ pipeSpeed = 180
                   /\ pipeGap = 140
                   /\ gravity = 1050
                   /\ pipeSpawnInterval = 1400

C7_Witness == score = 25 /\ difficultyLevel = 1 /\ last.op = "GameLoop"

\* C8: while the cooldown runs, activateInvulnerability returns false and
\* changes nothing; a second call right after a successful one fails and
\* leaves the ability as the first call set it; and an ability handler whose
\* call failed ran with the cooldown running and left it so.
C8_ActivateDuringCooldown ==
  /\ ability.cooldownTimer > 0 =>
       activateInvulnerability(Game) = [ret |-> FALSE, g |-> Game]
  /\ LET first == activateInvulnerability(Game)
     IN first.ret =>
          activateInvulnerability(first.g) = [ret |-> FALSE, g |-> first.g]
  /\ (last.op \in AbilityOps /\ last.ret = "fail") => ability.cooldownTimer > 0

C8_Witness ==
  /\ last.op \in AbilityOps /\ last.ret = "fail"
  /\ ability = [active |-> TRUE, activeTimer |-> abilityDuration,
                cooldownTimer |-> abilityCooldown]

\* C9: activateInvulnerability succeeds exactly when cooldownTimer is 0, and
\* then sets active, activeTimer = 3 s and cooldownTimer = 15 s at once; the
\* state right after a handler whose call succeeded shows exactly that.
C9_ActivateWhenReady ==
  /\ activateInvulnerability(Game).ret <=> ability.cooldownTimer = 0
  /\ ability.cooldownTimer = 0 =>
       activateInvulnerability(Game).g =
         [Game EXCEPT !.ability = [active |-> TRUE, activeTimer |-> 3000,
                                   cooldownTimer |-> 15000]]
  /\ (last.op \in AbilityOps /\ last.ret = "ok") =>
       ability = [active |-> TRUE, activeTimer |-> 3000, cooldownTimer |-> 15000]

\* A trigger succeeded in a round in progress (the bird is falling).
C9_Witness ==
  /\ last.op \in AbilityOps /\ last.ret = "ok"
  /\ bird.velocity > 0

\* C10: with e the deltaTime accumulated by update since a successful
\* activation in this round: the ability is active exactly while e < 3 s,
\* cooldownTimer is 15 s - e until it reaches 0 at e = 15 s, and a new
\* activation succeeds exactly from e = 15 s on.
C10_ActiveWindowAndCooldown ==
  sinceActivation >= 0 =>
    /\ ability.active <=> sinceActivation < abilityDuration
    /\ ability.active => ability.activeTimer = abilityDuration - sinceActivation
    /\ ability.cooldownTimer = abilityCooldown - sinceActivation
    /\ activateInvulnerability(Game).ret <=> sinceActivation >= abilityCooldown

C10_Witness ==
  /\ sinceActivation = abilityCooldown
  /\ ability.cooldownTimer = 0
  /\ state = "playing"

\* C11: in every reachable state exactly one of (active with activeTimer > 0),
\* (inactive with cooldownTimer > 0), (both timers 0) holds; no timer is
\* negative; and activeTimer is 0 whenever the ability is inactive.
C11_AbilityStates ==
  /\ LET running == ability.active /\ ability.activeTimer > 0
         cooling == ~ability.active /\ ability.cooldownTimer > 0
         idle == ability.activeTimer = 0 /\ ability.cooldownTimer = 0
     IN \/ running /\ ~cooling /\ ~idle
        \/ ~running /\ cooling /\ ~idle
        \/ ~running /\ ~cooling /\ idle
  /\ ability.activeTimer >= 0
  /\ ability.cooldownTimer >= 0
  /\ ~ability.active => ability.activeTimer = 0

\* The active window is over and the cooldown still runs.
C11_Witness ==
  /\ ~ability.active
  /\ ability.cooldownTimer > 0
  /\ state = "playing"

\* The rectangles A and B share interior points (touching edges do not).
StrictOverlap(A, B) ==
  /\ A.x < B.x + B.width
  /\ B.x < A.x + A.width
  /\ A.y < B.y + B.height
  /\ B.y < A.y + A.height

RectOf(b) == [x |-> b.x, y |-> b.y, width |-> b.width, height |-> b.height]

\* C12: at the collision step of a playing frame, an active invulnerability
\* makes checkCollisions change nothing whatever overlaps; when the step does
\* change something, the ability is inactive, the bird strictly overlaps a
\* pipe, and the result is dying and game over.  And every step into game
\* over that leaves the bird above the floor has the ability inactive and
\* the bird strictly overlapping a pipe.
C12_InvulnerableToPipes ==
  /\ [](state = "playing" =>
         \A dt \in {Min(d, maxDeltaTime) : d \in FrameDeltas} :
         \A rnd \in IF pipeSpawnTimer + dt >= pipeSpawnInterval
                    THEN Rands ELSE {MidRand} :
           LET a == beforeCollisions(Game, dt, rnd)
               b == checkCollisions(a)
           IN /\ a.ability.active => b = a
              /\ b # a => /\ ~a.ability.active
                          /\ \E i \in 1..Len(a.pipes) :
                               StrictOverlap(RectOf(a.bird), a.pipes[i])
                          /\ b.state = "gameover"
                          /\ b.bird.isDying)
  /\ [][(state = "playing" /\ state' = "gameover"
          /\ bird'.y + bird'.height < canvas'.height)
        => /\ ~ability'.active
           /\ \E i \in 1..Len(pipes') : StrictOverlap(RectOf(bird'), pipes'[i])]_vars

\* The round goes on while the invulnerable bird is inside a pipe.
C12_Witness ==
  /\ state = "playing"
  /\ last.op = "GameLoop"
  /\ ability.active
  /\ \E i \in 1..Len(pipes) : StrictOverlap(RectOf(bird), pipes[i])

\* C13: in a playing frame in which the live bird's bottom edge is at or
\* below the floor (nothing before the bounds check of updateBird moves the
\* bird vertically), the bird becomes dying with deathAnimationTime 0 and
\* velocity >= 200, and the state becomes game over in that frame, with the
\* invulnerability active or not.
C13_FloorDeath ==
  [][(/\ last'.op = "GameLoop"
      /\ state = "playing"
      /\ ~bird.isDying
      /\ bird.y + bird.height >= canvas.height)
     => /\ bird'.isDying
        /\ bird'.deathAnimationTime = 0
        /\ bird'.velocity >= Px(deathVelocity)
        /\ state' = "gameover"]_vars

\* The invulnerable bird died on the floor.
C13_Witness ==
  /\ state = "gameover"
  /\ last.op = "GameLoop" /\ last.from = "playing"
  /\ bird.isDying
  /\ bird.y + bird.height = canvas.height
  /\ ability.active

\* C14: the latch is set exactly when at least one press was latched since
\* it was last cleared; right after every playing frame it is clear; and the
\* frame applies one jump impulse if there was any press (one or many) and
\* none otherwise: the velocity after the frame is the jump velocity, or the
\* old velocity, plus gravity * dt, clamped (and raised to the death velocity
\* when the bird died in the frame).
C14_JumpConsumedOnce ==
  /\ []((presses >= 1) <=> input.jumpRequested)
  /\ [][(last'.op = "GameLoop" /\ state = "playing")
        => /\ ~input'.jumpRequested
           /\ LET v0 == IF presses >= 1 THEN -Px(jumpForce) ELSE bird.velocity
                  v1 == Min(v0 + gravity * deltaHanded', Px(maxVelocity))
              IN bird'.velocity = IF bird'.isDying
                                  THEN Max(v1, Px(deathVelocity)) ELSE v1]_vars

\* Two or more presses before a frame, one impulse in it.
C14_Witness ==
  /\ last.op = "GameLoop" /\ last.ret = "many"
  /\ state = "playing"
  /\ bird.velocity = -Px(baseJumpForce) + baseGravity * maxDeltaTime

\* The pairs of the list: spawnPipe pushes top then bottom, and the prune
\* filter keeps or drops both (they share x and width).
PairIndexes == 1..(Len(pipes) \div 2)

TopOf(k) == pipes[2 * k - 1]

BottomOf(k) == pipes[2 * k]

GapOf(k) == BottomOf(k).y - TopOf(k).height

\* This frame's update spawns a pair.
SpawnsNow ==
  /\ last'.op = "GameLoop"
  /\ state = "playing"
  /\ pipeSpawnTimer + deltaHanded' >= pipeSpawnInterval

\* C15: the list consists of pairs (top, bottom) with top.y = 0, the same x,
\* and top.height + gap + bottom.height equal to the play height (600),
\* where gap = bottom.y - top.height; every pair keeps this for its whole
\* life, also across changes of pipeGap; the pair spawned in a frame has gap
\* equal to the pipeGap in force in that frame, and no other step changes the
\* vertical extent of a segment.
C15_PairGeometry ==
  /\ [](/\ Len(pipes) % 2 = 0
        /\ \A k \in PairIndexes :
             /\ TopOf(k).y = 0
             /\ TopOf(k).x = BottomOf(k).x
             /\ TopOf(k).height + GapOf(k) + BottomOf(k).height = Px(viewportHeight))
  /\ [][/\ SpawnsNow =>
             /\ Len(pipes') >= 2
             /\ pipes'[Len(pipes')].y - pipes'[Len(pipes') - 1].height = Px(pipeGap)
        /\ \A j \in 1..Len(pipes') :
             \/ \E i \in 1..Len(pipes) : /\ pipes[i].y = pipes'[j].y
                                         /\ pipes[i].height = pipes'[j].height
             \/ SpawnsNow /\ j > Len(pipes') - 2]_vars

\* A pair spawned with the base gap is on screen after the gap has shrunk.
C15_Witness ==
  /\ difficultyLevel >= 1
  /\ pipeGap < basePipeGap
  /\ \E k \in PairIndexes : GapOf(k) = Px(basePipeGap)

\* C16: every pair on screen has its gap's top offset (the height of the top
\* segment) in [100, 600 - gap - 100], so both segments are at least 100 high;
\* and the pair spawned in a frame has the offset in
\* [100, 600 - pipeGap - 100] for the pipeGap in force in that frame.
C16_GapOffsetRange ==
  /\ [](\A k \in PairIndexes :
          /\ TopOf(k).height >= Px(spawnMargin)
          /\ TopOf(k).height <= Px(viewportHeight) - GapOf(k) - Px(spawnMargin)
          /\ BottomOf(k).height >= Px(spawnMargin))
  /\ [][SpawnsNow =>
          /\ Len(pipes') >= 2
          /\ pipes'[Len(pipes') - 1].height >= Px(spawnMargin)
          /\ pipes'[Len(pipes') - 1].height
               <= Px(viewportHeight) - Px(pipeGap) - Px(spawnMargin)]_vars

\* A pair spawned at the second level, with the narrower gap.
C16_Witness ==
  /\ difficultyLevel >= 1
  /\ \E k \in PairIndexes : /\ GapOf(k) < Px(basePipeGap)
                            /\ TopOf(k).height > Px(spawnMargin)

\* C17: the dt handed to update by every frame lies in [0, 0.1] seconds,
\* whatever the two consecutive timestamps are: the first frame after
\* lastTime = 0, a stall of seconds, an equal timestamp and a timestamp
\* earlier than the previous one.
C17_DeltaClamped ==
  /\ deltaHanded >= 0
  /\ deltaHanded <= maxDeltaTime

\* A stall of five seconds was handed to update as 0.1 s.
C17_Witness ==
  /\ last.op = "GameLoop"
  /\ lastTime = 5000
  /\ deltaHanded = maxDeltaTime

\* C18: in every game-over state the high score is at least the round's
\* score; the high score never decreases; and it is written only on the
\* transition to game-over, to the round's score, when that score strictly
\* exceeds the stored value.
C18_HighScoreRecorded ==
  /\ [](state = "gameover" => highScore >= score)
  /\ [][/\ highScore' >= highScore
        /\ highScore' # highScore
             => /\ state = "playing" /\ state' = "gameover"
                /\ score' > highScore
                /\ highScore' = score']_vars

\* A round ended with a score above the stored high score, which was raised.
C18_Witness ==
  /\ state = "gameover"
  /\ last.op = "GameLoop" /\ last.from = "playing"
  /\ score > 0
  /\ highScore = score

\* What the simulation owns: score, difficulty level and tunables, the
\* obstacles with their passed flags, the spawn timer and the ability.
Simulation(g) ==
  <<g.score, g.difficultyLevel, g.pipeGap, g.pipeSpeed, g.gravity, g.jumpForce,
    g.pipeSpawnInterval, g.pipes, g.pipeSpawnTimer, g.ability>>

\* C19: once the state is game-over nothing of the simulation changes until
\* a start trigger: no frame, jump press, ability key or ability button
\* changes it while the state stays game-over, and in the update call that
\* makes the transition the steps after the transition (from updateBird's
\* floor death, or from checkCollisions) change nothing of it either.
C19_FrozenAfterGameOver ==
  /\ [](state = "playing" =>
          \A d \in FrameDeltas, rnd \in Rands :
            LET dt == Min(d, maxDeltaTime)
                a == afterBird(Game, dt)
                c == updateSteps(Game, dt, rnd)
                u == update(Game, dt, rnd)
            IN /\ a.state = "gameover" => Simulation(u) = Simulation(a)
               /\ (a.state = "playing" /\ c.state = "gameover")
                    => Simulation(u) = Simulation(c))
  /\ [][(state = "gameover" /\ state' = "gameover")
          => Simulation(Game') = Simulation(Game)]_vars

\* Frames and an ability event went by in the game-over state.
C19_Witness ==
  /\ state = "gameover"
  /\ last.from = "gameover"
  /\ last.op \in {"KeyDownAbility", "ClickAbility"}
  /\ pipeSpawnTimer > 0

\* Poses of the bird on which startDeathAnimation is evaluated: alive or
\* dying, at the start of, during and at the end of the animation, rising,
\* at rest, at the death velocity and falling faster.
DeathTimes == {0, 500, deathTimeLimit * Milli}

PoseVelocities == {-Px(baseJumpForce), 0, Px(deathVelocity), Px(maxVelocity)}

\* C20: on the game as it is and with the bird put in any of the poses, the
\* first call of startDeathAnimation sets isDying, deathAnimationTime = 0 and
\* velocity = max(velocity, 200) and touches nothing else; a call while
\* already dying returns the game unchanged, so calling twice is calling
\* once.
C20_StartDeathIdempotent ==
  \A dying \in BOOLEAN, t \in DeathTimes, v \in PoseVelocities :
    LET g == [Game EXCEPT !.bird.isDying = dying,
                          !.bird.deathAnimationTime = t,
                          !.bird.velocity = v]
        a == startDeathAnimation(g)
    IN /\ a.bird.isDying
       /\ dying => a = g
       /\ ~dying => a = [g EXCEPT !.bird.isDying = TRUE,
                                  !.bird.deathAnimationTime = 0,
                                  !.bird.velocity = Max(v, Px(deathVelocity))]
       /\ startDeathAnimation(a) = a

\* The frame's update started the death animation of a slow bird.
C20_Witness ==
  /\ last.op = "GameLoop" /\ last.from = "playing"
  /\ bird.isDying
  /\ bird.deathAnimationTime = 0
  /\ bird.velocity = Px(deathVelocity)

\* The terminal condition of the death animation as the claim states it:
\* bottom edge on the floor, or more than 2000 ms of accumulated dt.
DeathTerminal(b) ==
  \/ b.y + b.height >= canvas.height
  \/ b.deathAnimationTime > deathTimeLimit

\* C21: a dying bird that has not reached its terminal condition is animated
\* by every frame: the frame adds its dt to the death-elapsed time and
\* applies the dying-branch gravity (1.5 x) and ceiling to the velocity, so
\* that after 2000 ms of frames at the latest the terminal condition holds;
\* and a frame leaves a dying bird that is on the floor on the floor.
C21_DeathAnimationRuns ==
  [][(last'.op = "GameLoop" /\ bird.isDying /\ bird'.isDying)
       => /\ ~DeathTerminal(bird)
             => /\ bird'.deathAnimationTime = bird.deathAnimationTime + deltaHanded'
                /\ bird'.velocity
                     = Min(bird.velocity + ((gravity * 3) \div 2) * deltaHanded',
                           (Px(maxVelocity) * 3) \div 2)
          /\ bird.y + bird.height >= canvas.height
             => bird'.y + bird'.height >= canvas.height]_vars

\* Frames of 0.1 s went by after a death by collision above the floor.
C21_Witness ==
  /\ state = "gameover"
  /\ last.op = "GameLoop" /\ last.from = "gameover"
  /\ deltaHanded = maxDeltaTime
  /\ bird.isDying
  /\ bird.y + bird.height < canvas.height

\* Velocities on which updateBird is evaluated: the bird's own, the two
\* ceilings, and a fast rise.
CeilingVelocities ==
  {bird.velocity, Px(maxVelocity), (Px(maxVelocity) * 3) \div 2, -2 * Px(baseJumpForce)}

\* The dt values update can be handed (dt >= 0).
UpdateDeltas == {Min(d, maxDeltaTime) : d \in FrameDeltas}

\* The difficulty levels whose tunables updateBird is evaluated with.
MaxLevel == 3

\* The game as increaseDifficulty leaves it at a level.
AtLevel(l) == increaseDifficulty([Game EXCEPT !.difficultyLevel = l])

\* C22: in every reachable state the velocity is at most maxVelocity; and
\* with the gravity and jump force of every level, for every dt >= 0, with or
\* without jump and from each of the velocities, the live branch of
\* updateBird leaves velocity <= maxVelocity and the dying branch
\* velocity <= 1.5 * maxVelocity (exactly min(v + 1.5 * gravity * dt,
\* 1.5 * maxVelocity)); a negative velocity of a live bird below the top edge
\* is what the gravity left of it, never raised to a bound.
C22_VelocityCeiling ==
  /\ bird.velocity <= Px(maxVelocity)
  /\ \A l \in 0..MaxLevel :
       LET g == AtLevel(l)
       IN \A v \in CeilingVelocities, dt \in UpdateDeltas :
            /\ \A jump \in BOOLEAN :
                 LET live == [g EXCEPT !.bird.isDying = FALSE, !.bird.velocity = v]
                     v0 == IF jump THEN -Px(g.jumpForce) ELSE v
                     a == updateBird(live, dt, jump).bird
                 IN /\ a.velocity <= Px(maxVelocity)
                    /\ (v0 + g.gravity * dt < 0 /\ bird.y >= 0 /\ ~a.isDying)
                         => a.velocity = v0 + g.gravity * dt
            /\ LET dying == [g EXCEPT !.bird.isDying = TRUE, !.bird.velocity = v]
                   b == updateBird(dying, dt, FALSE).bird
               IN /\ b.velocity <= (Px(maxVelocity) * 3) \div 2
                  /\ b.velocity = Min(v + ((g.gravity * 3) \div 2) * dt,
                                      (Px(maxVelocity) * 3) \div 2)

\* Free fall in every frame of the run: the last frame was cut to the ceiling.
C22_Witness ==
  /\ state = "playing"
  /\ last.op = "GameLoop"
  /\ env.frames = 0 /\ env.events = ClockEvents - 1
  /\ lastTime = ClockFrames * maxDeltaTime
  /\ bird.velocity = Px(maxVelocity)

\* The virtual viewport of the renderer, in the units of the model.
Viewport == [width |-> Px(viewportWidth), height |-> Px(viewportHeight)]

\* C23: what a frame's update does to the game does not depend on the size
\* of the physical canvas: with any canvas size, and any dt and random draw,
\* update gives the result it gives with the canvas at 400 x 600 (spawn x,
\* gap range, segment heights, pruning boundary and floor detection are
\* those of the viewport); and the pair spawned by a frame is placed at
\* x = 400 with its bottom segment ending at y = 600.
C23_ViewportMath ==
  /\ [](state = "playing" =>
         \A size \in CanvasSizes, dt \in UpdateDeltas :
         \A rnd \in IF pipeSpawnTimer + dt >= pipeSpawnInterval
                    THEN Rands ELSE {MidRand} :
           [update([Game EXCEPT !.canvas = size], dt, rnd) EXCEPT !.canvas = Viewport]
             = update([Game EXCEPT !.canvas = Viewport], dt, rnd))
  /\ [][SpawnsNow =>
          /\ Len(pipes') >= 2
          /\ \A j \in {Len(pipes') - 1, Len(pipes')} :
               pipes'[j].x = Px(viewportWidth)
          /\ pipes'[Len(pipes')].y + pipes'[Len(pipes')].height
               = Px(viewportHeight)]_vars

\* A pair was spawned by a frame of a round whose window had been resized.
C23_Witness ==
  /\ state = "playing"
  /\ last.op = "GameLoop"
  /\ canvas # Viewport
  /\ pipeSpawnTimer = 0
  /\ Len(pipes) >= 2

\* C24: in every playing frame (1) an ability whose activeTimer is at most
\* the frame's dt is inactive after the frame, and whenever the ability is
\* inactive after its tick and the bird strictly overlaps a pipe at the
\* positions the frame leaves (already advanced, pruned and spawned), the
\* frame ends the round; (2) a frame that ends the round above the floor does
\* so on an overlap at those advanced positions; (3) every pipe the frame
\* keeps has moved by the pipeSpeed of the frame's start times dt, also when
\* the frame's score raises pipeSpeed; (4) the score counts the pipes at
\* their advanced positions: after the frame every pipe behind the bird is
\* marked passed.
C24_StepOrder ==
  [][(last'.op = "GameLoop" /\ state = "playing")
       => /\ (ability.active /\ ability.activeTimer <= deltaHanded')
               => ~ability'.active
          /\ (/\ ~ability'.active
              /\ \E i \in 1..Len(pipes') : StrictOverlap(RectOf(bird'), pipes'[i]))
               => state' = "gameover"
          /\ (state' = "gameover" /\ bird'.y + bird'.height < canvas.height)
               => \E i \in 1..Len(pipes') : StrictOverlap(RectOf(bird'), pipes'[i])
          /\ \A j \in 1..Len(pipes') :
               \/ SpawnsNow /\ j > Len(pipes') - 2
               \/ \E i \in 1..Len(pipes) :
                    /\ pipes'[j].x = pipes[i].x - pipeSpeed * deltaHanded'
                    /\ pipes'[j].y = pipes[i].y
                    /\ pipes'[j].height = pipes[i].height
          /\ \A j \in 1..Len(pipes') :
               pipes'[j].x + pipes'[j].width < bird'.x => pipes'[j].passed]_vars

\* The ability ran out in the frame in which the bird came to overlap a
\* pipe, and the frame ended the round.
C24_Witness ==
  /\ state = "gameover"
  /\ last.op = "GameLoop" /\ last.from = "playing"
  /\ sinceActivation = abilityDuration
  /\ ~ability.active /\ ability.cooldownTimer > 0
  /\ bird.y = Px(birdStartY)
  /\ \E i \in 1..Len(pipes) : StrictOverlap(RectOf(bird), pipes[i])

\* Heights on which updateBird is evaluated: above the top edge, at it, at
\* the start height, resting on the floor and below the floor.
PoseHeights ==
  {-Px(birdHeight), 0, Px(birdStartY), canvas.height - bird.height,
   Px(viewportHeight)}

C26_PositionIntegrated ==
  [][(/\ last'.op = "GameLoop"
      /\ state = "playing" /\ state' = "playing"
      /\ deltaHanded' > 0
      /\ bird.velocity > 0 /\ bird'.velocity > 0)
       => bird'.y > bird.y]_vars

\* Two seconds of free fall at the ceiling velocity, and the bird is still
\* at the height it started from.
C26_Witness ==
  /\ state = "playing"
  /\ last.op = "GameLoop"
  /\ presses = 0
  /\ lastTime >= 20 * maxDeltaTime
  /\ bird.velocity = Px(maxVelocity)
  /\ bird.y = Px(birdStartY)

\* Inside the prune margins of the play area (400 wide).
InsideMargins(x, width) ==
  /\ x + width > -Px(pruneMargin)
  /\ x < Px(viewportWidth) + Px(pruneMargin)

\* C27: after every playing frame no pipe is left whose trailing edge is at
\* or left of -50 or whose leading edge is at or right of 450; and every
\* pipe of the frame's start that, advanced by pipeSpeed * dt, is inside
\* those margins is still in the list, at its advanced position.
C27_PruneMargins ==
  [][(last'.op = "GameLoop" /\ state = "playing")
       => /\ \A j \in 1..Len(pipes') :
               InsideMargins(pipes'[j].x, pipes'[j].width)
          /\ \A i \in 1..Len(pipes) :
               InsideMargins(pipes[i].x - pipeSpeed * deltaHanded', pipes[i].width)
                 => \E j \in 1..Len(pipes') :
                      /\ pipes'[j].x = pipes[i].x - pipeSpeed * deltaHanded'
                      /\ pipes'[j].y = pipes[i].y]_vars

\* A pair that was passed has been pruned on the left, the next is on screen.
C27_Witness ==
  /\ state = "playing"
  /\ last.op = "GameLoop"
  /\ score > 0
  /\ Len(pipes) > 0
  /\ \A i \in 1..Len(pipes) : ~pipes[i].passed

\* A window narrower than the distance two consecutive pairs are apart.
NarrowCanvas == [width |-> Px(170), height |-> Px(viewportHeight)]

\* The x positions along the list never decrease.
LeftToRight(ps) ==
  \A i \in 1..Len(ps), j \in 1..Len(ps) : i < j => ps[i].x <= ps[j].x

\* The passed pipes are the first ones of the list.
PassedPrefix(ps) ==
  \A i \in 1..Len(ps), j \in 1..Len(ps) : (i < j /\ ps[j].passed) => ps[i].passed

\* C28: in every reachable state the list is left to right (x never
\* decreases along it) and its passed pipes form a prefix; this is also so
\* after the next frame when the window is resized just before it, to any
\* size; and a playing frame moves every pipe it keeps by the same
\* pipeSpeed * dt.
C28_ListOrder ==
  /\ [](/\ LeftToRight(pipes)
        /\ PassedPrefix(pipes)
        /\ state = "playing" =>
             \A size \in CanvasSizes \cup {NarrowCanvas}, dt \in UpdateDeltas :
             \A rnd \in IF pipeSpawnTimer + dt >= pipeSpawnInterval
                        THEN Rands ELSE {MidRand} :
               LET ps == update([Game EXCEPT !.canvas = size], dt, rnd).pipes
               IN LeftToRight(ps) /\ PassedPrefix(ps))
  /\ [][(last'.op = "GameLoop" /\ state = "playing")
          => \A j \in 1..Len(pipes') :
               \/ SpawnsNow /\ j > Len(pipes') - 2
               \/ \E i \in 1..Len(pipes) :
                    /\ pipes'[j].x = pipes[i].x - pipeSpeed * deltaHanded'
                    /\ pipes'[j].passed \/ ~pipes[i].passed]_vars

\* Two pairs on screen, the left one passed and the right one not.
C28_Witness ==
  /\ Len(pipes) >= 4
  /\ pipes[1].passed
  /\ ~pipes[Len(pipes)].passed
  /\ pipes[1].x < pipes[Len(pipes)].x

\* C29: after every update the spawn timer is below the spawn interval in
\* force; a playing frame whose timer plus dt has not reached the interval
\* adds dt to the timer and appends nothing; one whose timer plus dt has
\* reached it appends exactly one pair (two unpassed segments) at x = 400
\* and leaves the timer at 0.
C29_TimerDrivenSpawn ==
  /\ [](pipeSpawnTimer < pipeSpawnInterval)
  /\ [][(last'.op = "GameLoop" /\ state = "playing")
          => LET n == Len(pipes')
                 Moved(j) == \E i \in 1..Len(pipes) :
                               /\ pipes'[j].x = pipes[i].x - pipeSpeed * deltaHanded'
                               /\ pipes'[j].y = pipes[i].y
             IN IF SpawnsNow
                THEN /\ pipeSpawnTimer' = 0
                     /\ n >= 2 /\ n <= Len(pipes) + 2
                     /\ \A j \in 1..(n - 2) : Moved(j)
                     /\ \A j \in {n - 1, n} : /\ pipes'[j].x = Px(viewportWidth)
                                              /\ ~pipes'[j].passed
                ELSE /\ pipeSpawnTimer' = pipeSpawnTimer + deltaHanded'
                     /\ n <= Len(pipes)
                     /\ \A j \in 1..n : Moved(j)]_vars

\* A pair was spawned after the spawn interval had been shortened.
C29_Witness ==
  /\ state = "playing"
  /\ last.op = "GameLoop"
  /\ pipeSpawnInterval < baseSpawnInterval
  /\ pipeSpawnTimer = 0
  /\ Len(pipes) >= 2
  /\ pipes[Len(pipes)].x = canvas.width

C32_CooldownCoversActive ==
  /\ [](ability.active
          => /\ ability.cooldownTimer - ability.activeTimer
                  = abilityCooldown - abilityDuration
             /\ ability.activeTimer > 0
             /\ ability.cooldownTimer > 0
             /\ activateInvulnerability(Game) = [ret |-> FALSE, g |-> Game])
  /\ [][/\ (last'.op \in AbilityOps /\ ability.active)
             => /\ ability' = ability
                /\ last'.ret \in {"fail", "none"}
        /\ (ability.active /\ ability'.active)
             => ability'.activeTimer
                  = ability.activeTimer
                      - (IF last'.op = "GameLoop" /\ state = "playing"
                         THEN deltaHanded' ELSE 0)]_vars

\* An ability handler ran in the middle of the active window and was refused.
C32_Witness ==
  /\ state = "playing"
  /\ last.op \in AbilityOps /\ last.ret = "fail"
  /\ ability.active
  /\ ability.activeTimer < abilityDuration

\* Segments i and j of the list belong to the same pair.
SamePair(i, j) == (i + 1) \div 2 = (j + 1) \div 2

\* The segments that the scoring filter groups with segment i: those whose
\* x is within pairEpsilon of its x.
GroupedWith(i) ==
  {j \in 1..Len(pipes) : Abs(pipes[j].x - pipes[i].x) < Px(pairEpsilon)}

\* C33: in every reachable state two segments whose x positions are within
\* 10 px of each other belong to the same pair, so the group that the
\* scoring filter forms around a segment has at most 2 segments; a pair is
\* spawned more than 10 px to the right of the pair spawned before it, and
\* at least pipeSpeed * pipeSpawnInterval to its right when the pair before
\* it has travelled at the present pipeSpeed since it was spawned (no change
\* of level in between).
C33_PairsApart ==
  /\ [](\A i \in 1..Len(pipes) :
          /\ \A j \in GroupedWith(i) : SamePair(i, j)
          /\ Cardinality(GroupedWith(i)) <= 2)
  /\ [][(SpawnsNow /\ Len(pipes') >= 4)
          => LET n == Len(pipes')
                 apart == pipes'[n].x - pipes'[n - 2].x
                 sameSpeed == pipes[Len(pipes)].x
                                = canvas.width - pipeSpeed * pipeSpawnTimer
             IN /\ apart > Px(pairEpsilon)
                /\ sameSpeed => apart >= pipeSpeed * pipeSpawnInterval]_vars

\* A pair was spawned while the pair before it is still in the list.
C33_Witness ==
  /\ state = "playing"
  /\ last.op = "GameLoop"
  /\ pipeSpawnTimer = 0
  /\ Len(pipes) >= 4
  /\ pipes[Len(pipes)].x = canvas.width
  /\ ~pipes[Len(pipes)].passed

\* The ability as the constructor and startGame leave it: idle, cooldown 0.
AbilityIdle == [active |-> FALSE, activeTimer |-> 0, cooldownTimer |-> 0]

\* C34: the ability becomes active only by an ability handler that runs
\* while the state is playing; an ability key or button event on the start
\* or game-over screen does not call activateInvulnerability and leaves
\* the ability unchanged; and from every reachable state, whatever cooldown
\* is left, startGame gives an idle ability on which activateInvulnerability
\* succeeds at once, as does every step that starts a round.
C34_AbilityOnlyWhilePlaying ==
  /\ [](/\ startGame(Game).ability = AbilityIdle
        /\ activateInvulnerability(startGame(Game)).ret
        /\ state # "playing" => abilityTrigger(Game) = [ret |-> "none", g |-> Game])
  /\ [][/\ (ability'.active /\ ~ability.active)
             => /\ last'.op \in AbilityOps
                /\ state = "playing"
                /\ last'.ret = "ok"
        /\ (last'.op \in AbilityOps /\ state # "playing")
             => /\ ability' = ability
                /\ last'.ret = "none"
        /\ StartsRound => ability' = AbilityIdle]_vars

\* The round ended while the ability was active: the game-over screen is up
\* with the active window and the cooldown still running.
C34_Witness ==
  /\ state = "gameover"
  /\ screens.gameOverScreen
  /\ ability.active
  /\ ability.cooldownTimer > abilityCooldown - abilityDuration

====
